---- MODULE Spec2Model ----
(***************************************************************************)
(* The "hello" example library of legate.core: the load-time registration  *)
(* hook register_tasks and the point task SumTask::cpu_variant             *)
(* (examples/hello/src/sum.cc), run by a host runtime that launches one    *)
(* point task per slice of a 1-D float array and later combines the        *)
(* per-task accumulators.                                                  *)
(*                                                                         *)
(* Machine words are scaled down: size_t has SizeBits bits (64 in the      *)
(* build), coord_t is the signed type of the same width, and float keeps   *)
(* MantBits significant bits (24 in the build), rounding to nearest, ties  *)
(* to even.                                                                *)
(***************************************************************************)
EXTENDS Integers, Sequences, FiniteSets, TLC

\* ------------------------------------------------------------- bounds
MaxLen == 3
MaxTasks == 2
MaxLoads == 2
SizeBits == 3
MantBits == 3

RECURSIVE Pow2(_)
Pow2(n) == IF n <= 0 THEN 1 ELSE 2 * Pow2(n - 1)

\* ------------------------------------------------------ machine words
\* size_t: unsigned, SizeBits wide; arithmetic wraps.
SizeMod == Pow2(SizeBits)
\* conversion of a signed coord_t to size_t (the usual arithmetic
\* conversions applied by "i <= input_shape.hi" and "size_t i = lo")
ToSizeT(c) == c % SizeMod
\* i += 2 in place of ++i
IncrTwo(i) == (i + 2) % SizeMod
\* ++i on a size_t
Incr(i) == (i + 1) % SizeMod

\* ------------------------------------------------------------- floats
\* the smallest power of two from which consecutive integers are no
\* longer all representable (2^24 for float)
Big == Pow2(MantBits)
MaxExp == MantBits + MaxLen + 1
Abs(x) == IF x < 0 THEN 0 - x ELSE x
\* exponent of the binade of a: 0 when a < 2^MantBits
Binade(a) == CHOOSE e \in 0..MaxExp :
                /\ a < Pow2(MantBits + e)
                /\ (e = 0 \/ a >= Pow2(MantBits + e - 1))
\* round an exact integer sum to the nearest float, ties to even
Round(x) ==
  LET a    == Abs(x)
      e    == Binade(a)
      unit == Pow2(e)
      q    == a \div unit
      r    == a % unit
      up   == (2 * r > unit) \/ (2 * r = unit /\ q % 2 = 1)
      m    == IF up THEN q + 1 ELSE q
  IN  IF x < 0 THEN 0 - (m * unit) ELSE m * unit
\* an indeterminate float: what a read outside the accessor's bounds yields
Indet == 0 - Pow2(MantBits + MaxExp + 1)
\* float addition ("total += in[i]", SumReduction<float>::fold)
fadd(a, b) == IF a = Indet \/ b = Indet THEN Indet ELSE Round(a + b)

\* --------------------------------------------------------------- data
Values == {1, Big}
Arrays == UNION {[1..n -> Values] : n \in 0..MaxLen}
FLOAT_LT == "FLOAT_LT"
INT32_LT == "INT32_LT"
\* the store the task expects, and one store for each assert that can fail
GoodStore == [code |-> FLOAT_LT, dim |-> 1, shape |-> <<0, 0>>]
Stores == {GoodStore,
           [GoodStore EXCEPT !.code = INT32_LT],
           [GoodStore EXCEPT !.dim = 2],
           [GoodStore EXCEPT !.shape = <<0, 1>>]}

VARIABLES
  ndebug,         \* the build: TRUE when NDEBUG is defined (assert expands to nothing)
  loaded,         \* loader reference count of the hello library
  registrations,  \* calls of SumTask::register_variants made in this process
  launched,       \* the runtime has launched the point tasks
  input,          \* the logical input array (index j is input[j+1])
  output,         \* the reduction store each point task gets a copy of
  lo, hi,         \* per task: input_shape.lo, input_shape.hi
  pc,             \* per task: position in cpu_variant
  i,              \* per task: the loop index (size_t)
  total,          \* per task: the local float total
  acc,            \* per task: the task's private accumulator, element 0
  readCount,      \* per task: how often each index of its slice was read
  oob,            \* per task: some read fell outside the slice
  reduces,        \* per task: the reduce calls made, <<index, value>> each
  combined,       \* the runtime has combined the accumulators
  result          \* the combined value

taskVars == <<lo, hi, pc, i, total, acc, readCount, oob, reduces>>
vars == <<ndebug, loaded, registrations, launched, input, output,
          lo, hi, pc, i, total, acc, readCount, oob, reduces, combined, result>>

Tasks == DOMAIN pc
\* the coordinate a size_t index denotes when used as in[i]
ToCoord(iv) == IF iv >= Pow2(SizeBits - 1) THEN iv - SizeMod ELSE iv
\* the indices of the rectangle [l, h]
Rect(l, h) == {j \in 0..(Pow2(SizeBits - 1) - 1) : l <= j /\ j <= h}
\* no assertion has failed and no read has faulted: the process is running
Alive == \A t \in Tasks : pc[t] \notin {"aborted", "crashed"}

\* --------------------------------------------------------- the loader
\* register_tasks behind a one-shot flag: a reload registers nothing
register_tasks_once(regs) == IF regs = 0 THEN 1 ELSE regs

\* register_tasks, the constructor hook: one register_variants call
register_tasks(regs) == regs + 1

\* dlopen: the constructors run when the library is mapped, that is on a
\* load that finds it unloaded
Load ==
  /\ ~launched
  /\ loaded < MaxLoads
  /\ loaded = 0 => registrations < MaxLoads
  /\ loaded' = loaded + 1
  /\ registrations' = IF loaded = 0 THEN register_tasks(registrations)
                                    ELSE registrations
  /\ UNCHANGED <<ndebug, launched, input, output, taskVars, combined, result>>

\* dlclose: the library is unmapped when the count reaches zero
Unload ==
  /\ ~launched
  /\ loaded > 0
  /\ loaded' = loaded - 1
  /\ UNCHANGED <<ndebug, registrations, launched, input, output, taskVars,
                 combined, result>>

\* -------------------------------------------------------- the runtime
\* the divisions of 0..n-1 into at most MaxTasks contiguous slices:
\* c[0] = 0 < c[1] <= ... <= c[k] = n, slice t being [c[t-1], c[t]-1].
\* A slice after the first may be empty, [c, c-1] with c >= 1.  The empty
\* array is one slice, the empty rectangle [0, -1].
Cuts(n) ==
  IF n = 0 THEN {[j \in 0..1 |-> 0]}
  ELSE UNION {{c \in [0..k -> 0..n] :
                 /\ c[0] = 0
                 /\ c[1] > 0
                 /\ c[k] = n
                 /\ \A j \in 0..(k - 1) : c[j] <= c[j + 1]} : k \in 1..MaxTasks}

\* a task launch, in a process where the library is loaded and its variant
\* registered once: one point task per slice, each with an accumulator the
\* runtime has initialised; the task enters with total = 0 and
\* i = input_shape.lo (lines 10-18)
Launch ==
  /\ ~launched
  /\ loaded > 0
  /\ registrations = 1
  /\ \E arr \in Arrays, st \in Stores :
       \E c \in Cuts(Len(arr)) :
         LET k == Cardinality(DOMAIN c) - 1 IN
         /\ launched' = TRUE
         /\ input' = arr
         /\ output' = st
         /\ lo' = [t \in 1..k |-> c[t - 1]]
         /\ hi' = [t \in 1..k |-> c[t] - 1]
         /\ pc' = [t \in 1..k |-> "loop"]
         /\ i' = [t \in 1..k |-> ToSizeT(c[t - 1])]
         /\ total' = [t \in 1..k |-> 0]
         /\ acc' = [t \in 1..k |-> 0]
         /\ readCount' = [t \in 1..k |-> [j \in Rect(c[t - 1], c[t] - 1) |-> 0]]
         /\ oob' = [t \in 1..k |-> FALSE]
         /\ reduces' = [t \in 1..k |-> <<>>]
  /\ UNCHANGED <<ndebug, loaded, registrations, combined, result>>

\* ------------------------------------------------ SumTask::cpu_variant
\* the loop test written "i < input_shape.hi"
LoopCondStrict(iv, h) == iv < ToSizeT(h)

\* the loop test "i <= input_shape.hi": size_t against coord_t
LoopCond(iv, h) == iv <= ToSizeT(h)

\* one iteration whose read falls inside the slice: total += in[i]; ++i
LoopRead(t) ==
  /\ pc[t] = "loop"
  /\ Alive
  /\ LoopCond(i[t], hi[t])
  /\ ToCoord(i[t]) \in DOMAIN readCount[t]
  /\ total' = [total EXCEPT ![t] = fadd(@, input[ToCoord(i[t]) + 1])]
  /\ readCount' = [readCount EXCEPT ![t][ToCoord(i[t])] = IF @ < 2 THEN @ + 1 ELSE @]
  /\ i' = [i EXCEPT ![t] = Incr(@)]
  /\ UNCHANGED <<ndebug, loaded, registrations, launched, input, output,
                 lo, hi, pc, acc, oob, reduces, combined, result>>

\* one iteration whose read falls outside the slice: the read faults, or
\* it yields an indeterminate float
LoopReadOutside(t) ==
  /\ pc[t] = "loop"
  /\ Alive
  /\ LoopCond(i[t], hi[t])
  /\ ToCoord(i[t]) \notin DOMAIN readCount[t]
  /\ oob' = [oob EXCEPT ![t] = TRUE]
  /\ \/ /\ pc' = [pc EXCEPT ![t] = "crashed"]
        /\ UNCHANGED <<total, i>>
     \/ /\ total' = [total EXCEPT ![t] = fadd(@, Indet)]
        /\ i' = [i EXCEPT ![t] = Incr(@)]
        /\ UNCHANGED pc
  /\ UNCHANGED <<ndebug, loaded, registrations, launched, input, output,
                 lo, hi, acc, readCount, reduces, combined, result>>

\* the asserts without the shape check of line 34
AssertsHoldNoShape(st) == st.code = FLOAT_LT /\ st.dim = 1

\* the three assert expressions of lines 32-34
AssertsHold(st) == st.code = FLOAT_LT /\ st.dim = 1 /\ st.shape = <<0, 0>>

\* assert(e): a failed assert aborts the process; with NDEBUG defined the
\* macro expands to nothing
AssertsPass(nd, st) == nd \/ AssertsHold(st)

\* the loop test fails
LoopExit(t) ==
  /\ pc[t] = "loop"
  /\ Alive
  /\ ~LoopCond(i[t], hi[t])
  /\ pc' = [pc EXCEPT ![t] = "validate"]
  /\ UNCHANGED <<ndebug, loaded, registrations, launched, input, output,
                 lo, hi, i, total, acc, readCount, oob, reduces, combined, result>>

\* sum.reduce(0, total) moved above the asserts
ValidateAfterReduce(t) ==
  /\ pc[t] = "validate"
  /\ Alive
  /\ acc' = [acc EXCEPT ![t] = fadd(@, total[t])]
  /\ reduces' = [reduces EXCEPT ![t] = Append(@, <<0, total[t]>>)]
  /\ pc' = [pc EXCEPT ![t] = IF AssertsPass(ndebug, output) THEN "returned"
                                                           ELSE "aborted"]
  /\ UNCHANGED <<ndebug, loaded, registrations, launched, input, output,
                 lo, hi, i, total, readCount, oob, combined, result>>

\* lines 29-34: the store and its reduce accessor are obtained, then the
\* asserts run
Validate(t) ==
  /\ pc[t] = "validate"
  /\ Alive
  /\ pc' = [pc EXCEPT ![t] = IF AssertsPass(ndebug, output) THEN "reduce"
                                                           ELSE "aborted"]
  /\ UNCHANGED <<ndebug, loaded, registrations, launched, input, output,
                 lo, hi, i, total, acc, readCount, oob, reduces, combined, result>>

\* ProdReduction<float>::fold in place of SumReduction<float>::fold
ReduceFoldProd(a, v) == IF a = Indet \/ v = Indet THEN Indet ELSE Round(a * v)

\* SumReduction<float>::fold on the accumulator element
ReduceFold(a, v) == fadd(a, v)

\* the reduce skipped when the local total is zero
ReduceUnlessZero(t) ==
  /\ pc[t] = "reduce"
  /\ Alive
  /\ acc' = [acc EXCEPT ![t] = IF total[t] = 0 THEN @ ELSE fadd(@, total[t])]
  /\ reduces' = [reduces EXCEPT ![t] = IF total[t] = 0 THEN @
                                       ELSE Append(@, <<0, total[t]>>)]
  /\ pc' = [pc EXCEPT ![t] = "returned"]
  /\ UNCHANGED <<ndebug, loaded, registrations, launched, input, output,
                 lo, hi, i, total, readCount, oob, combined, result>>

\* every point task reducing into the first task's accumulator
ReduceShared(t) ==
  /\ pc[t] = "reduce"
  /\ Alive
  /\ acc' = [acc EXCEPT ![1] = fadd(@, total[t])]
  /\ reduces' = [reduces EXCEPT ![t] = Append(@, <<0, total[t]>>)]
  /\ pc' = [pc EXCEPT ![t] = "returned"]
  /\ UNCHANGED <<ndebug, loaded, registrations, launched, input, output,
                 lo, hi, i, total, readCount, oob, combined, result>>

\* line 35: sum.reduce(0, total), then the task returns
Reduce(t) ==
  /\ pc[t] = "reduce"
  /\ Alive
  /\ acc' = [acc EXCEPT ![t] = ReduceFold(@, total[t])]
  /\ reduces' = [reduces EXCEPT ![t] = Append(@, <<0, total[t]>>)]
  /\ pc' = [pc EXCEPT ![t] = "returned"]
  /\ UNCHANGED <<ndebug, loaded, registrations, launched, input, output,
                 lo, hi, i, total, readCount, oob, combined, result>>

\* ------------------------------------------- the runtime's combination
Orders(k) == {p \in [1..k -> 1..k] : \A a, b \in 1..k : p[a] = p[b] => a = b}
RECURSIVE CombineFold(_, _, _)
CombineFold(order, accs, n) ==
  IF n = 0 THEN 0 ELSE fadd(CombineFold(order, accs, n - 1), accs[order[n]])

\* after all point tasks return, the runtime combines their buffers, in
\* an order of its choosing
Combine ==
  /\ launched
  /\ ~combined
  /\ \A t \in Tasks : pc[t] = "returned"
  /\ \E order \in Orders(Len(pc)) :
       result' = CombineFold(order, acc, Len(pc))
  /\ combined' = TRUE
  /\ UNCHANGED <<ndebug, loaded, registrations, launched, input, output, taskVars>>

\* ------------------------------------------------------ specification
Init ==
  /\ ndebug \in BOOLEAN
  /\ loaded = 0
  /\ registrations = 0
  /\ launched = FALSE
  /\ input = <<>>
  /\ output = GoodStore
  /\ lo = <<>> /\ hi = <<>> /\ pc = <<>> /\ i = <<>> /\ total = <<>>
  /\ acc = <<>> /\ readCount = <<>> /\ oob = <<>> /\ reduces = <<>>
  /\ combined = FALSE
  /\ result = 0

Step(t) ==
  \/ LoopRead(t)
  \/ LoopReadOutside(t)
  \/ LoopExit(t)
  \/ Validate(t)
  \/ Reduce(t)

Next ==
  \/ Load
  \/ Unload
  \/ Launch
  \/ \E t \in Tasks : LoopRead(t)
  \/ \E t \in Tasks : LoopReadOutside(t)
  \/ \E t \in Tasks : LoopExit(t)
  \/ \E t \in Tasks : Validate(t)
  \/ \E t \in Tasks : Reduce(t)
  \/ Combine

Spec == Init /\ [][Next]_vars

\* the scheduler runs every dispatched point task: a task that can take a
\* step eventually takes one
FairSpec == Spec /\ \A t \in 1..MaxTasks : WF_vars(t \in Tasks /\ Step(t))

\* ========================================================== properties
\* the left-to-right float sum arr[l] + ... + arr[h], starting from 0
RECURSIVE SeqSum(_, _, _)
SeqSum(arr, l, h) == IF h < l THEN 0 ELSE fadd(SeqSum(arr, l, h - 1), arr[h + 1])
\* what point task t owes: the sum of its slice
Contribution(t) == SeqSum(input, lo[t], hi[t])
\* the reduction store meets the preconditions: float, rank 1, shape [0,0]
StoreAsExpected == output.code = FLOAT_LT /\ output.dim = 1 /\ output.shape = <<0, 0>>
\* the task is past its loop
PastLoop(t) == pc[t] \in {"validate", "reduce", "returned", "aborted"}
\* the exact (unrounded) sum of the elements of arr at the positions in S
RECURSIVE SetSum(_, _)
SetSum(arr, S) == IF S = {} THEN 0
                  ELSE LET j == CHOOSE x \in S : TRUE
                       IN  arr[j] + SetSum(arr, S \ {j})
\* no sum of a selection of the elements rounds
NoRounding(arr) == \A S \in SUBSET (1..Len(arr)) : Round(SetSum(arr, S)) = SetSum(arr, S)
\* the values the combination can give for the tasks' contributions
Combinations == {CombineFold(order, [t \in Tasks |-> Contribution(t)], Len(pc)) :
                   order \in Orders(Len(pc))}
\* everything a point task owns
TaskState(t) == <<lo[t], hi[t], pc[t], i[t], total[t], acc[t], readCount[t],
                  oob[t], reduces[t]>>

\* C1: for a non-empty slice [lo, hi] the value handed to sum.reduce is the
\* left-to-right sum in[lo] + ... + in[hi] starting from 0: the running
\* total is the sum of the elements before i, every index of the slice has
\* been read exactly once when the loop is left, and no index outside the
\* slice is read.
C1_ReducesSliceSum ==
  \A t \in Tasks :
    lo[t] <= hi[t] =>
      /\ ~oob[t]
      /\ pc[t] = "loop" => total[t] = SeqSum(input, lo[t], i[t] - 1)
      /\ PastLoop(t) =>
            /\ total[t] = Contribution(t)
            /\ \A j \in DOMAIN readCount[t] : readCount[t][j] = 1
            /\ DOMAIN readCount[t] = lo[t]..hi[t]
      /\ \A n \in 1..Len(reduces[t]) : reduces[t][n][2] = Contribution(t)

\* a task over a slice of two or more elements has reduced
C1_Witness ==
  \E t \in Tasks :
    /\ lo[t] < hi[t]
    /\ pc[t] = "returned"
    /\ reduces[t] = <<(<<0, Contribution(t)>>)>>
    /\ Contribution(t) > 1

\* C2: for an empty slice (hi < lo) the task reads no input element and
\* contributes exactly 0.
C2_EmptySliceContributesZero ==
  \A t \in Tasks :
    hi[t] < lo[t] =>
      /\ ~oob[t]
      /\ pc[t] # "crashed"
      /\ total[t] = 0
      /\ \A n \in 1..Len(reduces[t]) : reduces[t][n][2] = 0
      /\ pc[t] = "returned" => acc[t] = 0

\* C3: every invocation whose reduction store satisfies the preconditions
\* runs to completion: the loop ends, the reduce is applied, the task
\* returns.
C3_RunsToCompletion ==
  \A t \in 1..MaxTasks :
    (t \in Tasks /\ StoreAsExpected) ~> (t \in Tasks /\ pc[t] = "returned")

\* C4: a completed invocation has written its accumulator exactly once, by
\* one reduce at index 0 adding the local total; no invocation reduces
\* more than once, whatever the length of its slice.
C4_ReducesExactlyOnce ==
  \A t \in Tasks :
    /\ Len(reduces[t]) <= 1
    /\ pc[t] = "returned" =>
          /\ reduces[t] = <<(<<0, total[t]>>)>>
          /\ acc[t] = fadd(0, total[t])
    /\ pc[t] # "returned" => reduces[t] = <<>> /\ acc[t] = 0

\* two tasks have completed, one over an empty slice, one over a slice of
\* several elements
C4_Witness ==
  \E t, u \in Tasks :
    /\ pc[t] = "returned" /\ hi[t] < lo[t] /\ Len(reduces[t]) = 1
    /\ pc[u] = "returned" /\ lo[u] < hi[u] /\ Len(reduces[u]) = 1

\* C5 as claimed: once the accumulators are combined, the combined value
\* is the sequential sum of the whole array, however it was divided.
C5_PartitionIndependent ==
  combined => result = SeqSum(input, 0, Len(input) - 1)

\* C5 amended: the combined value is a float sum of the per-slice float
\* sums, and it is the sequential sum of the whole array whenever no
\* addition of the elements rounds.
C5_PartitionIndependentUpToRounding ==
  combined =>
    /\ result \in Combinations
    /\ NoRounding(input) => result = SeqSum(input, 0, Len(input) - 1)

\* two tasks over non-empty slices of an array whose sums do not round
\* have been combined
C5_Witness ==
  /\ combined
  /\ Len(pc) >= 2
  /\ \A t \in Tasks : lo[t] <= hi[t]
  /\ NoRounding(input)
  /\ result = SeqSum(input, 0, Len(input) - 1)
  /\ result > 1

\* C6 as claimed: while the library is loaded, register_variants has been
\* called exactly once in the process, however often it was loaded.
C6_RegisteredOncePerProcess ==
  loaded > 0 => registrations = 1

\* C6 amended: register_variants is called once each time the library is
\* mapped into the process: a load that finds the library unloaded adds
\* one registration, a load of the loaded library adds none, and nothing
\* else registers.
C6_RegisteredOncePerLoad ==
  [][/\ registrations' = IF loaded = 0 /\ loaded' > 0 THEN registrations + 1
                                                     ELSE registrations
     /\ loaded' > 0 => registrations' >= 1]_vars

\* the library has been loaded, unloaded and loaded again twice over
C6_Witness ==
  loaded = 2 /\ registrations = 2

\* C7 as claimed: with a reduction store of the wrong type, rank or shape
\* the invocation never gets past the checks and never returns.
C7_BadStoreNeverReturns ==
  \A t \in Tasks :
    ~StoreAsExpected => pc[t] \notin {"reduce", "returned"}

\* C7 amended: in a build with assertions enabled, with a store of the
\* wrong type, rank or shape no invocation gets past the checks, reduces
\* or returns: it is in its loop, at the checks, or dead by a failed
\* assert or a faulting read; and an abort is final: no task steps again,
\* nothing is combined.
C7_BadStoreAbortsWhenAssertsEnabled ==
  (launched /\ ~ndebug /\ ~StoreAsExpected) =>
    /\ \A t \in Tasks : pc[t] \in {"loop", "validate", "aborted", "crashed"}
                         /\ reduces[t] = <<>>
    /\ ~combined
    /\ (\E t \in Tasks : pc[t] = "aborted") => ~ENABLED Next

\* an assertion has failed on a store of the wrong shape
C7_Witness ==
  /\ ~ndebug
  /\ output.shape # <<0, 0>>
  /\ \E t \in Tasks : pc[t] = "aborted"

\* C8: once launched, a step changes neither the input array nor the
\* slices nor the store; an accumulator changes only by its own task's
\* reduce, to the fold of its old value and that task's total, which the
\* step leaves alone; and no step changes the state of two tasks.
C8_Frame ==
  [][launched =>
       /\ input' = input /\ output' = output /\ lo' = lo /\ hi' = hi
       /\ \A t \in Tasks :
            acc'[t] # acc[t] =>
              /\ pc[t] = "reduce" /\ pc'[t] = "returned"
              /\ acc'[t] = fadd(acc[t], total[t])
              /\ total'[t] = total[t]
              /\ \A u \in Tasks \ {t} : TaskState(u)' = TaskState(u)]_vars

\* one task has reduced a non-zero total while another, yet to finish its
\* loop, still has its accumulator at the identity
C8_Witness ==
  \E t, u \in Tasks :
    /\ pc[t] = "returned" /\ acc[t] > 0
    /\ pc[u] = "loop" /\ acc[u] = 0 /\ lo[u] <= hi[u]

\* C9: whatever the interleaving, a task that has returned has contributed
\* the sum of its own slice, the combined value is a float sum of those
\* contributions, and no step changes the state of two tasks.
C9_InterleavingIndependent ==
  [][launched =>
       /\ \A t \in Tasks : pc'[t] = "returned" => acc'[t] = Contribution(t)
       /\ combined' => result' \in Combinations
       /\ \A t, u \in Tasks :
            (t # u /\ TaskState(t)' # TaskState(t)) => TaskState(u)' = TaskState(u)]_vars

\* the second task has returned before the first has left its loop
C9_Witness ==
  /\ Len(pc) >= 2
  /\ pc[2] = "returned" /\ acc[2] = Contribution(2) /\ acc[2] > 0
  /\ pc[1] = "loop" /\ lo[1] <= hi[1]

\* C10: an invocation that has aborted on a failed check has not reduced:
\* its accumulator holds the identity it started with.
C10_AbortLeavesAccumulator ==
  \A t \in Tasks :
    pc[t] = "aborted" => acc[t] = 0 /\ reduces[t] = <<>>

\* a task has aborted after reading the whole of its non-empty slice
C10_Witness ==
  \E t \in Tasks :
    /\ pc[t] = "aborted"
    /\ lo[t] <= hi[t]
    /\ \A j \in DOMAIN readCount[t] : readCount[t][j] = 1
    /\ total[t] > 0
    /\ acc[t] = 0
====
